---- MODULE Spec2Model ----
(***************************************************************************)
(* Model of skbold.core.mvp.Mvp: the pattern container with its two        *)
(* mutating methods, update_metadata (deriveLabelMetadata) and update_mask *)
(* (refineMask).                                                           *)
(*                                                                         *)
(* Conventions.                                                            *)
(*  - A Python attribute is an option: None is <<>>, a set attribute is    *)
(*    the one-element tuple <<value>>.                                     *)
(*  - A condition name (a string) is the sequence of its character codes;  *)
(*    numpy orders strings lexicographically by code.                      *)
(*  - cope_labels is a 1-D numpy array of names, so `cl == cls` is the     *)
(*    element-wise comparison.                                             *)
(*  - numpy positions and label codes are 0-based, as in the code; TLA+    *)
(*    sequences are 1-based, so array element i lives at index i + 1.      *)
(*  - A mask volume is 2-D (mask_shape = <<rows, cols>>), stored flat in   *)
(*    row-major (C) order.                                                 *)
(*  - X is represented by its shape <<n_samples, n_features>>: neither     *)
(*    method reads or writes its values.                                   *)
(***************************************************************************)
EXTENDS Integers, Sequences, FiniteSets, TLC

\* ------------------------------------------------------------------ bounds
\* Longest cope_labels sequence the loader supplies in the label lifecycle.
MaxLabels == 6
\* Longest cope_labels sequence the loader supplies in the full lifecycle.
MaxSamples == 1
\* Largest number of voxels (product of mask_shape) of a loaded mask.
MaxVoxels == 4

\* ------------------------------------------------------------ input domains
\* Condition names "A", "AB", "B" as character codes.
NameSet == { <<65>>, <<65, 66>>, <<66>> }

\* Values an entry of new_idx can take (0 = drop, non-zero = keep).
IdxValues == {0, 1, 2}

\* All sequences over S of length at most n.
SeqsUpTo(S, n) == UNION { [1..k -> S] : k \in 0..n }

\* The mask shapes <<rows, cols>> of at most MaxVoxels voxels.
Shapes == { sh \in (1..MaxVoxels) \X (1..MaxVoxels) : sh[1] * sh[2] <= MaxVoxels }

\* The flat boolean masks of a shape.
MasksOf(shape) == [1..(shape[1] * shape[2]) -> BOOLEAN]

\* ----------------------------------------------------------------- options
None == <<>>
Some(v) == <<v>>
IsNone(o) == Len(o) = 0
Val(o) == o[1]

\* -------------------------------------------------------------------- state
VARIABLES
  cope_labels,   \* self.cope_labels : option of sequence of names
  n_cope,        \* self.n_cope
  cope_names,    \* self.cope_names
  mask_index,    \* self.mask_index  : option of flat sequence of BOOLEAN
  mask_shape,    \* self.mask_shape  : option of <<rows, cols>>
  X,             \* self.X           : option of <<n_samples, n_features>>
  y,             \* self.y
  n_trials,      \* self.n_trials
  n_inst,        \* self.n_inst
  class_idx,     \* self.class_idx
  trial_idx,     \* self.trial_idx
  last_op,       \* the operation that ran last
  outcome,       \* how it ended: "ok" or the exception raised
  loaded_mask    \* the mask_index the loader first supplied (history)

labelFields == <<y, n_trials, cope_names, n_cope, n_inst, class_idx, trial_idx>>
vars == <<cope_labels, n_cope, cope_names, mask_index, mask_shape, X, y,
          n_trials, n_inst, class_idx, trial_idx, last_op, outcome, loaded_mask>>

\* ------------------------------------------------------- numpy: strings, sort
\* String comparison of numpy's sort: lexicographic by character code.
RECURSIVE LexLess(_, _)
LexLess(a, b) ==
  IF a = <<>> THEN b # <<>>
  ELSE IF b = <<>> THEN FALSE
  ELSE IF Head(a) = Head(b) THEN LexLess(Tail(a), Tail(b))
  ELSE Head(a) < Head(b)

\* Insert index i into the index list perm, sorted by ar, behind equal elements.
RECURSIVE InsertIdx(_, _, _)
InsertIdx(ar, perm, i) ==
  IF perm = <<>> THEN <<i>>
  ELSE IF LexLess(ar[i], ar[Head(perm)]) THEN <<i>> \o perm
  ELSE <<Head(perm)>> \o InsertIdx(ar, Tail(perm), i)

\* The stable sorting permutation of ar[1..n].
RECURSIVE ArgSortUpTo(_, _)
ArgSortUpTo(ar, n) ==
  IF n = 0 THEN <<>> ELSE InsertIdx(ar, ArgSortUpTo(ar, n - 1), n)

\* Faulty variant: no sorting at all.
ArgSortIdentity(ar) == [k \in 1..Len(ar) |-> k]

\* ar.argsort(kind='mergesort'): the stable sorting permutation.
ArgSort(ar) == ArgSortUpTo(ar, Len(ar))

\* aux = ar[perm]
Take(ar, perm) == [k \in 1..Len(perm) |-> ar[perm[k]]]

\* flag = concatenate(([True], aux[1:] != aux[:-1]))
UniqueFlag(aux) == [k \in 1..Len(aux) |-> (k = 1) \/ (aux[k] # aux[k - 1])]

\* np.sum over a boolean vector: the number of True entries.
\* The number of True entries among b[1..n].
RECURSIVE NpSumTo(_, _)
NpSumTo(b, n) == IF n = 0 THEN 0 ELSE NpSumTo(b, n - 1) + (IF b[n] THEN 1 ELSE 0)

NpSum(b) == NpSumTo(b, Len(b))

\* aux[flag]: boolean-mask selection, in order.
RECURSIVE BoolSelect(_, _)
BoolSelect(ar, flag) ==
  IF ar = <<>> THEN <<>>
  ELSE (IF Head(flag) THEN <<Head(ar)>> ELSE <<>>) \o BoolSelect(Tail(ar), Tail(flag))

\* np.unique(ar): the sorted distinct elements.
NpUnique(ar) ==
  LET aux == Take(ar, ArgSort(ar))
  IN  BoolSelect(aux, UniqueFlag(aux))

\* Faulty variant: the codes are not scattered back through the permutation.
NpUniqueInverseNoScatter(ar) ==
  LET aux == Take(ar, ArgSort(ar))
      flag == UniqueFlag(aux)
  IN  [i \in 1..Len(ar) |-> NpSum(SubSeq(flag, 1, i)) - 1]

\* np.unique(ar, return_inverse=True)[1]: iflag = cumsum(flag) - 1,
\* inv[perm] = iflag.
NpUniqueInverse(ar) ==
  LET perm == ArgSort(ar)
      aux == Take(ar, perm)
      flag == UniqueFlag(aux)
  IN  [i \in 1..Len(ar) |->
         LET k == CHOOSE k \in 1..Len(ar) : perm[k] = i
         IN  NpSum(SubSeq(flag, 1, k)) - 1]

\* LabelEncoder().fit_transform(cl): classes_, y = np.unique(y, return_inverse=True)
FitTransform(cl) == NpUniqueInverse(cl)

\* Faulty variant: an empty array is rejected too.
BadInputShapeOrEmpty(clOpt) == IsNone(clOpt) \/ Len(Val(clOpt)) = 0

\* column_or_1d inside fit_transform raises ValueError("bad input shape ()")
\* for None (a 0-d object array); a 1-D array of any length, also empty, passes.
BadInputShape(clOpt) == IsNone(clOpt)

\* cl == cls : element-wise comparison of an array with one name.
EqElem(cl, cls) == [i \in 1..Len(cl) |-> cl[i] = cls]

\* The positions of the True entries of b, ascending, the first entry of b
\* being position pos.
RECURSIVE NpWhereFrom(_, _)
NpWhereFrom(b, pos) ==
  IF b = <<>> THEN <<>>
  ELSE (IF Head(b) THEN <<pos>> ELSE <<>>) \o NpWhereFrom(Tail(b), pos + 1)

\* Faulty variant: 1-based positions.
NpWhereOneBased(b) == NpWhereFrom(b, 1)

\* np.where(b)[0]: the 0-based positions of the True entries, ascending.
NpWhere(b) == NpWhereFrom(b, 0)

\* Faulty variant: one count per condition instead of one per sample.
NInstPerCondition(cl) ==
  LET names == NpUnique(cl)
  IN  [c \in 1..Len(names) |-> NpSum(EqElem(cl, names[c]))]

\* [np.sum(cls == cl) for cls in cl]
NInst(cl) == [i \in 1..Len(cl) |-> NpSum(EqElem(cl, cl[i]))]

\* [cl == cls for cls in self.cope_names]
ClassIdx(cl, names) == [c \in 1..Len(names) |-> EqElem(cl, names[c])]

\* [np.where(cl == cls)[0] for cls in self.cope_names]
TrialIdx(cl, names) == [c \in 1..Len(names) |-> NpWhere(EqElem(cl, names[c]))]

\* ------------------------------------------------------------ numpy: volumes
\* Faulty variant: np.ones instead of np.zeros.
NpOnes(shape) == [r \in 1..shape[1] |-> [c \in 1..shape[2] |-> 1]]

\* np.zeros(shape)
NpZeros(shape) == [r \in 1..shape[1] |-> [c \in 1..shape[2] |-> 0]]

\* Faulty variant: column-major (Fortran) order.
ReshapeColumnMajor(flat, shape) ==
  [r \in 1..shape[1] |-> [c \in 1..shape[2] |-> flat[(c - 1) * shape[1] + r]]]

\* flat.reshape(shape): row-major (C) order.
Reshape(flat, shape) ==
  [r \in 1..shape[1] |-> [c \in 1..shape[2] |-> flat[(r - 1) * shape[2] + c]]]

\* Number of True cells of the boolean volume bm at or before cell (r, c) in
\* row-major iteration order: which element of the right-hand side the cell gets.
Rank(bm, r, c) ==
  LET ncols == Len(bm[1])
  IN  Cardinality({ q \in 1..((r - 1) * ncols + c) :
                      bm[((q - 1) \div ncols) + 1][((q - 1) % ncols) + 1] })

\* tmp[bm] += vals : boolean-mask indexing, True cells taken in row-major order.
BoolIndexAdd(tmp, bm, vals) ==
  [r \in 1..Len(tmp) |-> [c \in 1..Len(tmp[r]) |->
     IF bm[r][c] THEN tmp[r][c] + vals[Rank(bm, r, c)] ELSE tmp[r][c]]]

\* Faulty variant: zero is the value kept.
AsBoolInverted(v) == v = 0

\* bool(v) of a number: non-zero is True.
AsBool(v) == v # 0

\* volume.astype(bool)
AsTypeBool(vol) == [r \in 1..Len(vol) |-> [c \in 1..Len(vol[r]) |-> AsBool(vol[r][c])]]

\* volume.ravel(): flatten in row-major order.
Ravel(vol) ==
  LET ncols == Len(vol[1])
  IN  [p \in 1..(Len(vol) * ncols) |-> vol[((p - 1) \div ncols) + 1][((p - 1) % ncols) + 1]]

\* Faulty variant: the size is compared with the size of the mask, not its sum.
SizeDiffersFromMaskSize(new_idx, mask) == Len(new_idx) # Len(mask)

\* new_idx.size != self.mask_index.sum()
SizeDiffers(new_idx, mask) == Len(new_idx) # NpSum(mask)

\* The three statements after the size check: the new flat mask.
NewMaskIndex(mask, shape, new_idx) ==
  Ravel(AsTypeBool(BoolIndexAdd(NpZeros(shape), Reshape(mask, shape), new_idx)))

\* ------------------------------------------------------------------ actions
\* Mvp.__init__: the data attributes are None; n_trials, n_inst, class_idx and
\* trial_idx do not exist yet.
Init ==
  /\ cope_labels = None
  /\ n_cope = None
  /\ cope_names = None
  /\ mask_index = None
  /\ mask_shape = None
  /\ X = None
  /\ y = None
  /\ n_trials = None
  /\ n_inst = None
  /\ class_idx = None
  /\ trial_idx = None
  /\ last_op = "init"
  /\ outcome = "ok"
  /\ loaded_mask = None

\* The loader (a subclass) populates the raw fields once: the labels, the mask
\* with its shape, and a feature matrix with one row per label and one column
\* per active voxel.
Load(cl, mask, shape) ==
  /\ IsNone(cope_labels)
  /\ IsNone(mask_index)
  /\ cope_labels' = Some(cl)
  /\ mask_index' = Some(mask)
  /\ mask_shape' = Some(shape)
  /\ X' = Some(<<Len(cl), NpSum(mask)>>)
  /\ loaded_mask' = Some(mask)
  /\ last_op' = "load"
  /\ outcome' = "ok"
  /\ UNCHANGED labelFields

\* Mvp.update_metadata
UpdateMetadata ==
  /\ last_op' = "update_metadata"
  /\ IF BadInputShape(cope_labels)
     THEN /\ outcome' = "ValueError"
          /\ UNCHANGED labelFields
     ELSE LET cl == Val(cope_labels)
              names == NpUnique(cl)
          IN  /\ y' = Some(FitTransform(cl))
              /\ n_trials' = Some(Len(cl))
              /\ cope_names' = Some(names)
              /\ n_cope' = Some(Len(names))
              /\ n_inst' = Some(NInst(cl))
              /\ class_idx' = Some(ClassIdx(cl, names))
              /\ trial_idx' = Some(TrialIdx(cl, names))
              /\ outcome' = "ok"
  /\ UNCHANGED <<cope_labels, mask_index, mask_shape, X, loaded_mask>>

\* Faulty variant: the feature matrix is narrowed along with the mask.
UpdateMaskNarrowingX(new_idx) ==
  /\ last_op' = "update_mask"
  /\ IF IsNone(mask_index)
     THEN /\ outcome' = "AttributeError"
          /\ UNCHANGED <<mask_index, X>>
     ELSE IF SizeDiffers(new_idx, Val(mask_index))
     THEN /\ outcome' = "ValueError"
          /\ UNCHANGED <<mask_index, X>>
     ELSE /\ mask_index' = Some(NewMaskIndex(Val(mask_index), Val(mask_shape), new_idx))
          /\ X' = Some(<<Val(X)[1], NpSum(Val(mask_index'))>>)
          /\ outcome' = "ok"
  /\ UNCHANGED <<cope_labels, mask_shape, loaded_mask>>
  /\ UNCHANGED labelFields

\* Mvp.update_mask
UpdateMask(new_idx) ==
  /\ last_op' = "update_mask"
  /\ IF IsNone(mask_index)
     THEN /\ outcome' = "AttributeError"
          /\ UNCHANGED mask_index
     ELSE IF SizeDiffers(new_idx, Val(mask_index))
     THEN /\ outcome' = "ValueError"
          /\ UNCHANGED mask_index
     ELSE /\ outcome' = "ok"
          /\ mask_index' = Some(NewMaskIndex(Val(mask_index), Val(mask_shape), new_idx))
  /\ UNCHANGED <<cope_labels, mask_shape, X, loaded_mask>>
  /\ UNCHANGED labelFields

\* The new_idx arguments tried in a state: every length from 0 to one more than
\* the number of active voxels.
NewIdxArgs ==
  SeqsUpTo(IdxValues, (IF IsNone(mask_index) THEN 0 ELSE NpSum(Val(mask_index))) + 1)

\* ----------------------------------------------------------- specifications
LoadAny == \E cl \in SeqsUpTo(NameSet, MaxSamples), shape \in Shapes :
             \E mask \in MasksOf(shape) : Load(cl, mask, shape)

CallUpdateMask == \E new_idx \in NewIdxArgs : UpdateMask(new_idx)

Next == LoadAny \/ UpdateMetadata \/ CallUpdateMask

\* The full lifecycle: load, update_metadata and update_mask in any order.
Spec == Init /\ [][Next]_vars

LoadLabels == \E cl \in SeqsUpTo(NameSet, MaxLabels) : Load(cl, <<TRUE>>, <<1, 1>>)

NextLabels == LoadLabels \/ UpdateMetadata

\* The label lifecycle: longer label sequences over a one-voxel mask.
SpecLabels == Init /\ [][NextLabels]_vars

LoadMask == \E shape \in Shapes : \E mask \in MasksOf(shape) : Load(<<>>, mask, shape)

NextMask == LoadMask \/ CallUpdateMask

\* The mask lifecycle: a container without samples, every mask, update_mask only.
SpecMask == Init /\ [][NextMask]_vars

\* ------------------------------------------------- vocabulary of the claims
\* The number of true entries of a flat mask.
CountTrue(m) == Cardinality({ p \in 1..Len(m) : m[p] })

\* The number of true entries of m at positions 1..p.
TruesUpTo(m, p) == Cardinality({ q \in 1..p : m[q] })

\* Every true position of a is a true position of b.
MaskSubset(a, b) == Len(a) = Len(b) /\ \A p \in 1..Len(a) : a[p] => b[p]

\* Lexicographic order of two names, stated without recursion.
LexBefore(a, b) ==
  \E k \in 0..Len(a) :
    /\ k <= Len(b)
    /\ \A q \in 1..k : a[q] = b[q]
    /\ \/ (k = Len(a) /\ k < Len(b))
       \/ (k < Len(a) /\ k < Len(b) /\ a[k + 1] < b[k + 1])

\* The elements of a sequence.
Range(s) == { s[i] : i \in 1..Len(s) }

\* update_metadata ran last and returned normally.
Derived == last_op = "update_metadata" /\ outcome = "ok"

\* update_mask ran last and returned normally.
Refined == last_op = "update_mask" /\ outcome = "ok"

NameA == <<65>>
NameAB == <<65, 66>>
NameB == <<66>>

\* ------------------------------------------------------------------- C1
\* C1: update_mask called with a new_idx whose size differs from the number of
\* true entries of mask_index raises ValueError and leaves mask_index as it was:
\* a step either is such a rejection, or is no step of update_mask with a
\* wrong-size argument.
C1_WrongSizeRejected ==
  [][\/ (outcome' = "ValueError" /\ mask_index' = mask_index)
     \/ IsNone(mask_index)
     \/ \A new_idx \in NewIdxArgs :
          Len(new_idx) # CountTrue(Val(mask_index)) => ~UpdateMask(new_idx)]_vars

\* A wrong-size call was rejected after an earlier call had narrowed the mask.
C1_Witness ==
  /\ last_op = "update_mask"
  /\ outcome = "ValueError"
  /\ ~IsNone(mask_index)
  /\ mask_index # loaded_mask
  /\ CountTrue(Val(mask_index)) >= 1

\* ------------------------------------------------------------------- C2
\* C2: after update_mask with a new_idx of the valid size, flat position p of
\* the new mask is true iff p was true in the old mask and the entry of new_idx
\* for it (the k-th entry for the k-th true position) is non-zero.
C2_Placement ==
  [][(~IsNone(mask_index) /\ last_op' = "update_mask") =>
       \A new_idx \in [1..CountTrue(Val(mask_index)) -> IdxValues] :
         UpdateMask(new_idx) =>
           LET old == Val(mask_index)
               new == Val(mask_index')
           IN  /\ outcome' = "ok"
               /\ Len(new) = Len(old)
               /\ \A p \in 1..Len(old) :
                    new[p] <=> (old[p] /\ new_idx[TruesUpTo(old, p)] # 0)]_vars

\* Scenario B: shape (2,2), mask [T,F,T,F], new_idx [1,0] gave [T,F,F,F].
C2_Witness ==
  /\ Refined
  /\ mask_shape = Some(<<2, 2>>)
  /\ loaded_mask = Some(<<TRUE, FALSE, TRUE, FALSE>>)
  /\ mask_index = Some(<<TRUE, FALSE, FALSE, FALSE>>)

\* ------------------------------------------------------------------- C3
\* C3: every step that keeps mask_index defined leaves it a subset of what it
\* was, and it is always a subset of the mask the loader first supplied.
C3_MaskMonotone ==
  /\ [][(~IsNone(mask_index) /\ ~IsNone(mask_index'))
          => MaskSubset(Val(mask_index'), Val(mask_index))]_vars
  /\ [](~IsNone(mask_index) => MaskSubset(Val(mask_index), Val(loaded_mask)))

\* A successful call left a non-empty mask that is strictly narrower than the
\* loaded one.
C3_Witness ==
  /\ Refined
  /\ CountTrue(Val(mask_index)) >= 1
  /\ CountTrue(Val(mask_index)) + 2 <= CountTrue(Val(loaded_mask))

\* ------------------------------------------------------------------- C4
\* C4 as claimed (I2): whenever mask_index and X are both defined, the number of
\* true entries of mask_index equals the number of columns of X.
C4_I2_Original ==
  (~IsNone(mask_index) /\ ~IsNone(X)) => CountTrue(Val(mask_index)) = Val(X)[2]

\* C4 as amended: whenever both are defined the number of true entries of
\* mask_index is at most the number of columns of X, with equality exactly
\* while mask_index is still the mask the loader supplied.
C4_I2_Amended ==
  (~IsNone(mask_index) /\ ~IsNone(X)) =>
     /\ CountTrue(Val(mask_index)) <= Val(X)[2]
     /\ (CountTrue(Val(mask_index)) = Val(X)[2]) <=> (mask_index = loaded_mask)

\* After update_metadata, a call has narrowed the mask below the columns of X.
C4_Witness ==
  /\ ~IsNone(y)
  /\ ~IsNone(mask_index)
  /\ CountTrue(Val(mask_index)) < Val(X)[2]

\* ------------------------------------------------------------------ C10
\* C10: a step of update_mask, successful or failing, changes nothing but
\* mask_index: X, mask_shape, cope_labels and the label-derived fields stay.
C10_Frame ==
  [][last_op' = "update_mask" =>
       UNCHANGED <<X, mask_shape, cope_labels, y, n_trials, cope_names, n_cope,
                   n_inst, class_idx, trial_idx>>]_vars

\* A successful narrowing call on a container whose label fields are populated.
C10_Witness ==
  /\ Refined
  /\ mask_index # loaded_mask
  /\ ~IsNone(class_idx)
  /\ Len(Val(cope_labels)) >= 1
  /\ X = Some(<<Len(Val(cope_labels)), CountTrue(Val(loaded_mask))>>)

\* ------------------------------------------------------------------- C5
\* C5: after update_metadata on a non-empty cope_labels, y has the length of
\* cope_labels, and two samples have equal labels iff they have equal codes.
C5_LabelConsistency ==
  (Derived /\ Len(Val(cope_labels)) > 0) =>
     LET cl == Val(cope_labels)
         enc == Val(y)
     IN  /\ Len(enc) = Len(cl)
         /\ \A i, j \in 1..Len(cl) : (cl[i] = cl[j]) <=> (enc[i] = enc[j])

\* Labels ["B","A","B"] were encoded.
C5_Witness ==
  /\ Derived
  /\ cope_labels = Some(<<NameB, NameA, NameB>>)

\* ------------------------------------------------------------------- C6
\* C6: after update_metadata the per-condition index vectors partition the
\* samples: sample i is in trial_idx[c] and true in class_idx[c] for exactly
\* the one c with cope_names[c] = cope_labels[i], so condition c is marked for
\* as many samples as cope_names[c] occurs in cope_labels.
C6_ConditionCoverage ==
  Derived =>
     LET cl == Val(cope_labels)
         names == Val(cope_names)
         cidx == Val(class_idx)
         tidx == Val(trial_idx)
         n == Len(cl)
         Occurrences(c) == Cardinality({ j \in 1..n : cl[j] = names[c] })
     IN  /\ Len(cidx) = Len(names)
         /\ Len(tidx) = Len(names)
         /\ \A c \in 1..Len(names) :
              /\ Len(cidx[c]) = n
              /\ Range(tidx[c]) \subseteq 0..(n - 1)
              /\ Len(tidx[c]) = Cardinality(Range(tidx[c]))
              /\ Len(tidx[c]) = Occurrences(c)
              /\ CountTrue(cidx[c]) = Occurrences(c)
         /\ \A i \in 0..(n - 1) :
              /\ Cardinality({ c \in 1..Len(names) : i \in Range(tidx[c]) }) = 1
              /\ Cardinality({ c \in 1..Len(names) : cidx[c][i + 1] }) = 1
              /\ \A c \in 1..Len(names) :
                   /\ (i \in Range(tidx[c])) <=> (cl[i + 1] = names[c])
                   /\ cidx[c][i + 1] <=> (cl[i + 1] = names[c])

\* Labels ["B","AB","B","A"] were indexed: three conditions, one of them twice.
C6_Witness ==
  /\ Derived
  /\ cope_labels = Some(<<NameB, NameAB, NameB, NameA>>)
  /\ Len(Val(trial_idx)) = 3

\* ------------------------------------------------------------------- C7
\* C7 as claimed: update_metadata called while cope_labels is None or empty
\* ends in an error and populates no label-derived field.
C7_Original ==
  (last_op = "update_metadata" /\ (IsNone(cope_labels) \/ Len(Val(cope_labels)) = 0))
     => (outcome # "ok" /\ IsNone(y) /\ IsNone(cope_names))

\* C7 as amended: update_metadata called while cope_labels is None ends in an
\* error and populates no label-derived field; called on an empty cope_labels
\* it returns normally and sets every label-derived field to its empty value
\* (no samples, no conditions).
C7_Amended ==
  /\ (last_op = "update_metadata" /\ IsNone(cope_labels)) =>
        /\ outcome = "ValueError"
        /\ \A f \in 1..Len(labelFields) : IsNone(labelFields[f])
  /\ (last_op = "update_metadata" /\ ~IsNone(cope_labels) /\ Len(Val(cope_labels)) = 0) =>
        /\ outcome = "ok"
        /\ y = Some(<<>>)
        /\ n_trials = Some(0)
        /\ cope_names = Some(<<>>)
        /\ n_cope = Some(0)
        /\ n_inst = Some(<<>>)
        /\ class_idx = Some(<<>>)
        /\ trial_idx = Some(<<>>)

\* update_metadata ran on a loaded, empty cope_labels.
C7_Witness ==
  /\ last_op = "update_metadata"
  /\ ~IsNone(cope_labels)
  /\ Len(Val(cope_labels)) = 0

\* ------------------------------------------------------------------- C8
\* C8: after update_metadata, cope_names is the strictly ascending
\* (lexicographic) sequence of the distinct values of cope_labels, and y[i] is
\* the 0-based position of cope_labels[i] in cope_names.
C8_SortedEncoding ==
  Derived =>
     LET cl == Val(cope_labels)
         names == Val(cope_names)
         enc == Val(y)
     IN  /\ Range(names) = Range(cl)
         /\ \A c \in 1..(Len(names) - 1) : LexBefore(names[c], names[c + 1])
         /\ n_cope = Some(Len(names))
         /\ Len(enc) = Len(cl)
         /\ \A i \in 1..Len(cl) :
              /\ enc[i] \in 0..(Len(names) - 1)
              /\ names[enc[i] + 1] = cl[i]

\* Scenario A with the names "A" < "AB" < "B": six labels in the order
\* A, AB, A, B, AB, A are encoded 0, 1, 0, 2, 1, 0.
C8_Witness ==
  /\ Derived
  /\ cope_labels = Some(<<NameA, NameAB, NameA, NameB, NameAB, NameA>>)
  /\ cope_names = Some(<<NameA, NameAB, NameB>>)
  /\ y = Some(<<0, 1, 0, 2, 1, 0>>)

\* ------------------------------------------------------------------- C9
\* C9: after update_metadata, n_inst has one entry per sample, and entry i is
\* the number of samples whose label equals the label of sample i.
C9_CountPerSample ==
  Derived =>
     LET cl == Val(cope_labels)
         cnt == Val(n_inst)
     IN  /\ Len(cnt) = Len(cl)
         /\ n_trials = Some(Len(cl))
         /\ \A i \in 1..Len(cl) :
              cnt[i] = Cardinality({ j \in 1..Len(cl) : cl[j] = cl[i] })

\* Scenario A: the six labels give the counts 3, 2, 3, 1, 2, 3.
C9_Witness ==
  /\ Derived
  /\ Len(Val(cope_labels)) = 6
  /\ n_inst = Some(<<3, 2, 3, 1, 2, 3>>)

====
